---- MODULE Spec2Model ----
(***************************************************************************)
(* A model of braincode/metrics.py: the Metric call contract, the          *)
(* per-dimension (VectorMetric) and whole-matrix (MatrixMetric) scoring    *)
(* strategies and the eight concrete metrics.                              *)
(*                                                                         *)
(* Arrays are numpy-like records [ndim, shape, data] with row-major data.  *)
(* Numbers are exact: NaN, a rational n/d, or a signed square root         *)
(* sgn(n)*sqrt(|n|/d), so that float division by zero, NaN propagation and *)
(* "equals 1.0" are decided exactly (rounding error is not modelled).      *)
(* A call is a frame on a stack; RepresentationalSimilarity's inner        *)
(* comparison is a nested call on the same stack.                          *)
(***************************************************************************)
EXTENDS Integers, Sequences, FiniteSets, TLC

VARIABLES metrics, stack, usedBy

vars == <<metrics, stack, usedBy>>

(***************************************************************************)
(* Bounds of the model.                                                    *)
(***************************************************************************)
MaxN == 3

MaxF == 2

\* column counts and entry values of the data-carrying input families
DataCols == {1, 2}

DataValues == {0, 1}

(***************************************************************************)
(* Numbers.                                                                *)
(***************************************************************************)
Abs(k) == IF k < 0 THEN 0 - k ELSE k

Sign(k) == IF k < 0 THEN 0 - 1 ELSE IF k = 0 THEN 0 ELSE 1

RECURSIVE GCD(_, _)
GCD(a, b) == IF b = 0 THEN a ELSE GCD(b, a % b)

\* the integer square root, by bisection between lo and hi
RECURSIVE Bisect(_, _, _)
Bisect(lo, hi, k) ==
    IF lo >= hi THEN lo
    ELSE LET mid == (lo + hi + 1) \div 2
         IN  IF mid * mid <= k THEN Bisect(mid, hi, k) ELSE Bisect(lo, mid - 1, k)

ISqrt(k) == Bisect(0, IF k < 46340 THEN k ELSE 46340, k)

IsSquare(k) == ISqrt(k) * ISqrt(k) = k

NaN == [k |-> "nan", n |-> 0, d |-> 0]

\* a finite irrational value the representation has no closed form for (the
\* difference or mean of roots); no claim's case computes one
Opaque == [k |-> "expr", n |-> 0, d |-> 0]

Inf(s) == [k |-> "inf", n |-> s, d |-> 0]

\* the rational p/q, q # 0, in lowest terms with a positive denominator
Rat(p, q) ==
    LET g == GCD(Abs(p), Abs(q))
    IN  [k |-> "rat", n |-> (Sign(q) * p) \div g, d |-> Abs(q) \div g]

Num(i) == [k |-> "rat", n |-> i, d |-> 1]

Zero == Num(0)

One == Num(1)

IsNaN(a) == a.k = "nan"

RatAdd(a, b) == Rat(a.n * b.d + b.n * a.d, a.d * b.d)

RatSub(a, b) == Rat(a.n * b.d - b.n * a.d, a.d * b.d)

RatMul(a, b) == Rat(a.n * b.n, a.d * b.d)

\* s * sqrt(p / q) for s in {-1, 0, 1}, p >= 0, q > 0: rational when p/q is
\* a square of a rational, a "root" number otherwise
SqrtRat(s, p, q) ==
    LET g  == GCD(p, q)
        pp == p \div g
        qq == q \div g
    IN  IF s = 0 \/ pp = 0 THEN Zero
        ELSE IF IsSquare(pp) /\ IsSquare(qq) THEN Rat(s * ISqrt(pp), ISqrt(qq))
        ELSE [k |-> "root", n |-> s * pp, d |-> qq]

\* float division of two rationals: x/0 is NaN for x = 0 and +-inf otherwise
Div(a, b) ==
    IF IsNaN(a) \/ IsNaN(b) THEN NaN
    ELSE IF b.n = 0 THEN (IF a.n = 0 THEN NaN ELSE Inf(Sign(a.n)))
    ELSE Rat(a.n * b.d, a.d * b.n)

\* the square of |a| as a pair <<numerator, denominator>>
SqOf(a) == IF a.k = "root" THEN <<Abs(a.n), a.d>> ELSE <<a.n * a.n, a.d * a.d>>

\* float a > b on rationals and roots; FALSE when either side is NaN
NumGt(a, b) ==
    IF IsNaN(a) \/ IsNaN(b) THEN FALSE
    ELSE LET sa == Sign(a.n)
             sb == Sign(b.n)
             qa == SqOf(a)
             qb == SqOf(b)
         IN  IF sa # sb THEN sa > sb
             ELSE IF sa = 0 THEN FALSE
             ELSE IF sa = 1 THEN qa[1] * qb[2] > qb[1] * qa[2]
             ELSE qa[1] * qb[2] < qb[1] * qa[2]

RECURSIVE SumSeq(_)
SumSeq(s) == IF s = <<>> THEN Zero ELSE RatAdd(s[1], SumSeq(Tail(s)))

AnyNaN(s) == \E i \in 1..Len(s) : IsNaN(s[i])

AllRat(s) == \A i \in 1..Len(s) : s[i].k = "rat"

(***************************************************************************)
(* Arrays.                                                                 *)
(***************************************************************************)
Array(shape, data) == [ndim |-> Len(shape), shape |-> shape, data |-> data]

Vec(data) == Array(<<Len(data)>>, data)

\* X.reshape(-1, 1) of a 1-D array
Reshape(A) == Array(<<A.shape[1], 1>>, A.data)

\* entry (r, c), 0-based, of a 2-D array
At(A, r, c) == A.data[r * A.shape[2] + c + 1]

\* X[:, i], 0-based i, of a 2-D array
Col(A, i) == [r \in 1..A.shape[1] |-> At(A, r - 1, i)]

\* X[r, :], 0-based r, of a 2-D array
Row(A, r) == [c \in 1..A.shape[2] |-> At(A, r, c - 1)]

(***************************************************************************)
(* Metric instances and their construction-time configuration.             *)
(***************************************************************************)
VectorClasses ==
    {"PearsonR", "SpearmanRho", "KendallTau", "RMSE", "ClassificationAccuracy"}

MatrixClasses == {"RankAccuracy", "RepresentationalSimilarity", "LinearCKA"}

\* reduction values: what bool(r) and callable(r) answer for each
NpMean == [name |-> "np.mean", truthy |-> TRUE, callable |-> TRUE]

NoReduction == [name |-> "None", truthy |-> FALSE, callable |-> FALSE]

ZeroReduction == [name |-> "0", truthy |-> FALSE, callable |-> FALSE]

StrReduction == [name |-> "'mean'", truthy |-> TRUE, callable |-> FALSE]

NoneField == [name |-> "", truthy |-> FALSE, callable |-> FALSE]

VectorMetric(cls, reduction) ==
    [cls |-> cls, reduction |-> reduction, distance |-> "", comparison |-> ""]

RankAccuracy(distance) ==
    [cls |-> "RankAccuracy", reduction |-> NoneField, distance |-> distance,
     comparison |-> ""]

RepresentationalSimilarity(distance, comparison) ==
    [cls |-> "RepresentationalSimilarity", reduction |-> NoneField,
     distance |-> distance, comparison |-> comparison]

LinearCKA ==
    [cls |-> "LinearCKA", reduction |-> NoneField, distance |-> "",
     comparison |-> ""]

\* "default_comparison" is the one PearsonR() built when the class body of
\* RepresentationalSimilarity is evaluated; rsa1 and rsa2 both hold it
Constructed ==
    [m \in {"default_comparison", "pearson", "pearson_none", "pearson_zero",
            "pearson_str", "spearman", "spearman_none", "kendall", "rmse",
            "accuracy", "rank", "rank_cityblock", "rsa1", "rsa2",
            "rsa_custom", "cka"} |->
        CASE m = "default_comparison" -> VectorMetric("PearsonR", NpMean)
          [] m = "pearson"       -> VectorMetric("PearsonR", NpMean)
          [] m = "pearson_none"  -> VectorMetric("PearsonR", NoReduction)
          [] m = "pearson_zero"  -> VectorMetric("PearsonR", ZeroReduction)
          [] m = "pearson_str"   -> VectorMetric("PearsonR", StrReduction)
          [] m = "spearman"      -> VectorMetric("SpearmanRho", NpMean)
          [] m = "spearman_none" -> VectorMetric("SpearmanRho", NoReduction)
          [] m = "kendall"       -> VectorMetric("KendallTau", NpMean)
          [] m = "rmse"          -> VectorMetric("RMSE", NpMean)
          [] m = "accuracy"      -> VectorMetric("ClassificationAccuracy", NpMean)
          [] m = "rank"          -> RankAccuracy("euclidean")
          [] m = "rank_cityblock" -> RankAccuracy("cityblock")
          [] m = "rsa1" ->
                RepresentationalSimilarity("correlation", "default_comparison")
          [] m = "rsa2" ->
                RepresentationalSimilarity("correlation", "default_comparison")
          [] m = "rsa_custom" ->
                RepresentationalSimilarity("cityblock", "spearman_none")
          [] m = "cka"           -> LinearCKA]

\* the instances a caller holds ("default_comparison" is reached only
\* through the RepresentationalSimilarity instances)
Callable == DOMAIN Constructed \ {"default_comparison"}

(***************************************************************************)
(* Metric.__call__: frames, validation and dispatch.                       *)
(***************************************************************************)
NoErr == [type |-> "", msg |-> ""]

NoResult == [kind |-> "none", by |-> "", vec |-> <<>>, num |-> NaN]

Scalar(x) == [kind |-> "scalar", by |-> "", vec |-> <<>>, num |-> x]

Vector(s) == [kind |-> "vector", by |-> "", vec |-> s, num |-> NaN]

ShapeMessages ==
    {"X and Y must be 1D or 2D arrays.",
     "X and Y must have the same number of samples.",
     "X and Y must have the same number of dimensions."}

GeometryExempt == {"RepresentationalSimilarity", "LinearCKA"}

\* lines 14-17
Normalize(A) == IF A.ndim = 1 THEN Reshape(A) ELSE A

\* a variant that exempts every whole-matrix metric from the column check
ShapeCheckMatrixExempt(cls, X, Y) ==
    IF X.ndim # 2 \/ Y.ndim # 2 THEN "X and Y must be 1D or 2D arrays."
    ELSE IF X.shape[1] # Y.shape[1]
    THEN "X and Y must have the same number of samples."
    ELSE IF cls \notin MatrixClasses /\ X.shape[2] # Y.shape[2]
    THEN "X and Y must have the same number of dimensions."
    ELSE ""

\* a variant that exempts the geometry metrics from the sample check as well
ShapeCheckExemptSamples(cls, X, Y) ==
    IF X.ndim # 2 \/ Y.ndim # 2 THEN "X and Y must be 1D or 2D arrays."
    ELSE IF cls \in GeometryExempt THEN ""
    ELSE IF X.shape[1] # Y.shape[1]
    THEN "X and Y must have the same number of samples."
    ELSE IF X.shape[2] # Y.shape[2]
    THEN "X and Y must have the same number of dimensions."
    ELSE ""

\* lines 18-24 on the normalised inputs: the message raised, "" when none
ShapeCheck(cls, X, Y) ==
    IF X.ndim # 2 \/ Y.ndim # 2 THEN "X and Y must be 1D or 2D arrays."
    ELSE IF X.shape[1] # Y.shape[1]
    THEN "X and Y must have the same number of samples."
    ELSE IF cls \notin GeometryExempt /\ X.shape[2] # Y.shape[2]
    THEN "X and Y must have the same number of dimensions."
    ELSE ""

\* The frame of a call self(X, Y) once __call__ has validated: either it has
\* raised, or it stands at the dispatch to _apply_metric.  X and Y are the
\* inputs after lines 14-17; steps counts the scoring steps run inside the
\* call, nscore the _score invocations of the column loop, redArgs the
\* arguments the reduction was invoked with.
Enter(self, X, Y) ==
    LET Xn  == Normalize(X)
        Yn  == Normalize(Y)
        msg == ShapeCheck(metrics[self].cls, Xn, Yn)
    IN  [self |-> self, X |-> Xn, Y |-> Yn,
         pc |-> IF msg = "" THEN "_apply_metric" ELSE "raised",
         err |-> IF msg = "" THEN NoErr ELSE [type |-> "ValueError", msg |-> msg],
         i |-> 0, scores |-> <<>>, result |-> NoResult,
         X_rdm |-> <<>>, Y_rdm |-> <<>>,
         steps |-> 0, nscore |-> 0, redArgs |-> <<>>]

Top == stack[Len(stack)]

SetTop(f) == [stack EXCEPT ![Len(stack)] = f]

Running(classes, pc) ==
    /\ stack # <<>>
    /\ Top.pc = pc
    /\ metrics[Top.self].cls \in classes

Raise(f, type, msg) == [f EXCEPT !.pc = "raised", !.err = [type |-> type, msg |-> msg]]

Return(f, result) == [f EXCEPT !.pc = "done", !.result = result]
(***************************************************************************)
(* The numeric primitives (scipy.stats, sklearn.metrics) as the metrics    *)
(* use them.                                                               *)
(***************************************************************************)
\* the product-moment correlation of two equally long sequences: NaN when an
\* input holds NaN or is constant (0/0)
Correlation(x, y) ==
    IF AnyNaN(x) \/ AnyNaN(y) THEN NaN
    ELSE IF ~(AllRat(x) /\ AllRat(y)) THEN Opaque
    ELSE LET n   == Num(Len(x))
             Sx  == SumSeq(x)
             Sy  == SumSeq(y)
             Sxy == SumSeq([i \in 1..Len(x) |-> RatMul(x[i], y[i])])
             Sxx == SumSeq([i \in 1..Len(x) |-> RatMul(x[i], x[i])])
             Syy == SumSeq([i \in 1..Len(x) |-> RatMul(y[i], y[i])])
             c   == RatSub(RatMul(n, Sxy), RatMul(Sx, Sy))
             vx  == RatSub(RatMul(n, Sxx), RatMul(Sx, Sx))
             vy  == RatSub(RatMul(n, Syy), RatMul(Sy, Sy))
         IN  IF vx.n = 0 \/ vy.n = 0 THEN NaN
             ELSE LET q == Div(RatMul(c, c), RatMul(vx, vy))
                  IN  SqrtRat(Sign(c.n), q.n, q.d)

\* twice the average rank of x[i] in x
Rank2(x, i) ==
    2 * Cardinality({j \in 1..Len(x) : NumGt(x[i], x[j])})
      + Cardinality({j \in 1..Len(x) : x[j] = x[i]}) + 1

Ranks(x) == [i \in 1..Len(x) |-> Num(Rank2(x, i))]

\* sign of a - b
Cmp(a, b) == IF NumGt(a, b) THEN 1 ELSE IF NumGt(b, a) THEN 0 - 1 ELSE 0

\* tau-b: (concordant - discordant) / sqrt((n0 - n1) * (n0 - n2))
TauB(x, y) ==
    IF AnyNaN(x) \/ AnyNaN(y) THEN NaN
    ELSE LET P  == {p \in (1..Len(x)) \X (1..Len(x)) : p[1] < p[2]}
             C  == Cardinality({p \in P : Cmp(x[p[1]], x[p[2]]) * Cmp(y[p[1]], y[p[2]]) = 1})
             D  == Cardinality({p \in P : Cmp(x[p[1]], x[p[2]]) * Cmp(y[p[1]], y[p[2]]) = 0 - 1})
             tx == Cardinality({p \in P : Cmp(x[p[1]], x[p[2]]) # 0})
             ty == Cardinality({p \in P : Cmp(y[p[1]], y[p[2]]) # 0})
         IN  IF tx * ty = 0 THEN NaN
             ELSE SqrtRat(Sign(C - D), (C - D) * (C - D), tx * ty)

\* sqrt(mean((x - y)^2))
RootMeanSquare(x, y) ==
    IF AnyNaN(x) \/ AnyNaN(y) THEN NaN
    ELSE IF ~(AllRat(x) /\ AllRat(y)) THEN Opaque
    ELSE LET q == Div(SumSeq([i \in 1..Len(x) |->
                        RatMul(RatSub(x[i], y[i]), RatSub(x[i], y[i]))]),
                      Num(Len(x)))
         IN  IF IsNaN(q) THEN NaN ELSE SqrtRat(1, q.n, q.d)

\* the fraction of positions where x and y agree
AccuracyScore(x, y) ==
    Div(Num(Cardinality({i \in 1..Len(x) : x[i] = y[i]})), Num(Len(x)))

\* pearsonr rejects sequences shorter than 2 with a ValueError of its own
ScoreRaises(cls, x, y) == cls = "PearsonR" /\ Len(x) < 2

\* the concrete metric's _score(x, y) on one column pair
Score(cls, x, y) ==
    CASE cls = "PearsonR"               -> Correlation(x, y)
      [] cls = "SpearmanRho"            -> IF AnyNaN(x) \/ AnyNaN(y) THEN NaN
                                           ELSE Correlation(Ranks(x), Ranks(y))
      [] cls = "KendallTau"             -> TauB(x, y)
      [] cls = "RMSE"                   -> RootMeanSquare(x, y)
      [] cls = "ClassificationAccuracy" -> AccuracyScore(x, y)

\* numpy's mean of a sequence of floats
Mean(s) ==
    IF s = <<>> \/ AnyNaN(s) THEN NaN
    ELSE IF Len(s) = 1 THEN s[1]
    ELSE IF AllRat(s) THEN Div(SumSeq(s), Num(Len(s)))
    ELSE Opaque

\* the value of reduction(scores): the call reduction.name(vec), with its
\* number when the reduction is np.mean
Reduced(reduction, scores) ==
    [kind |-> "reduced", by |-> reduction.name, vec |-> scores,
     num |-> Mean(scores)]

(***************************************************************************)
(* VectorMetric._apply_metric.                                             *)
(***************************************************************************)
\* line 38
BeginLoop(f) ==
    [f EXCEPT !.scores = [k \in 1..f.X.shape[2] |-> Zero], !.i = 0,
              !.pc = "loop", !.steps = @ + 1]

\* a variant that scores every column of X against the first column of Y
ColumnScoreFirstY(f) ==
    LET cls == metrics[f.self].cls
        x   == Col(f.X, f.i)
        y   == Col(f.Y, 0)
        g   == [f EXCEPT !.steps = @ + 1, !.nscore = @ + 1]
    IN  IF ScoreRaises(cls, x, y)
        THEN Raise(g, "ValueError", "x and y must have length at least 2.")
        ELSE [g EXCEPT !.scores[f.i + 1] = Score(cls, x, y), !.i = @ + 1]

\* one iteration of lines 39-40
ColumnScore(f) ==
    LET cls == metrics[f.self].cls
        x   == Col(f.X, f.i)
        y   == Col(f.Y, f.i)
        g   == [f EXCEPT !.steps = @ + 1, !.nscore = @ + 1]
    IN  IF ScoreRaises(cls, x, y)
        THEN Raise(g, "ValueError", "x and y must have length at least 2.")
        ELSE [g EXCEPT !.scores[f.i + 1] = Score(cls, x, y), !.i = @ + 1]

\* lines 41-45
Reduce(f) ==
    LET reduction == metrics[f.self].reduction
        g == [f EXCEPT !.steps = @ + 1]
    IN  IF reduction.truthy
        THEN IF ~reduction.callable
             THEN Raise(g, "TypeError", "Reduction argument must be callable.")
             ELSE Return([g EXCEPT !.redArgs = Append(@, f.scores)],
                         Reduced(reduction, f.scores))
        ELSE Return(g, Vector(f.scores))

VectorBegin ==
    /\ Running(VectorClasses, "_apply_metric")
    /\ stack' = SetTop(BeginLoop(Top))
    /\ UNCHANGED <<metrics, usedBy>>

VectorScoreColumn ==
    /\ Running(VectorClasses, "loop")
    /\ Top.i < Len(Top.scores)
    /\ stack' = SetTop(ColumnScore(Top))
    /\ UNCHANGED <<metrics, usedBy>>

\* a variant that clears a rejected reduction on the instance
VectorReduceResetting ==
    /\ Running(VectorClasses, "loop")
    /\ Top.i = Len(Top.scores)
    /\ stack' = SetTop(Reduce(Top))
    /\ metrics' = IF /\ metrics[Top.self].reduction.truthy
                     /\ ~metrics[Top.self].reduction.callable
                  THEN [metrics EXCEPT ![Top.self].reduction = NoReduction]
                  ELSE metrics
    /\ UNCHANGED usedBy

VectorReduce ==
    /\ Running(VectorClasses, "loop")
    /\ Top.i = Len(Top.scores)
    /\ stack' = SetTop(Reduce(Top))
    /\ UNCHANGED <<metrics, usedBy>>
(***************************************************************************)
(* sklearn.metrics.pairwise_distances.                                     *)
(***************************************************************************)
RatAbs(a) == Rat(Abs(a.n), a.d)

\* the distance between two rows under a named metric.  The correlation
\* distance 1 - r is NaN for a constant row.
Distance(metric, u, v) ==
    CASE metric = "euclidean" ->
            LET q == SumSeq([k \in 1..Len(u) |->
                        RatMul(RatSub(u[k], v[k]), RatSub(u[k], v[k]))])
            IN  SqrtRat(1, q.n, q.d)
      [] metric = "cityblock" ->
            SumSeq([k \in 1..Len(u) |-> RatAbs(RatSub(u[k], v[k]))])
      [] metric = "correlation" ->
            LET r == Correlation(u, v)
            IN  IF IsNaN(r) THEN NaN
                ELSE IF r.k = "rat" THEN RatSub(One, r)
                ELSE Opaque

\* pairwise_distances(A, B, metric): entry (i, j) is the distance between
\* row i of A and row j of B.  pairwise_distances(A, metric) is the case
\* self = TRUE: B is A and the diagonal is exactly 0.
PairwiseDistances(A, B, metric, self) ==
    LET N == A.shape[1]
        M == B.shape[1]
    IN  Array(<<N, M>>,
              [k \in 1..(N * M) |->
                  LET i == (k - 1) \div M
                      j == (k - 1) % M
                  IN  IF self /\ i = j THEN Zero
                      ELSE Distance(metric, Row(A, i), Row(B, j))])

Transpose(D) ==
    Array(<<D.shape[2], D.shape[1]>>,
          [k \in 1..(D.shape[1] * D.shape[2]) |->
              At(D, (k - 1) % D.shape[1], (k - 1) \div D.shape[1])])

Diag(D) == [j \in 1..D.shape[1] |-> At(D, j - 1, j - 1)]

(***************************************************************************)
(* RankAccuracy._score.                                                    *)
(***************************************************************************)
\* lines 107-109: distances.T > np.diag(distances) compares entry (i, j) of
\* the transpose with diag[j]; sum(axis=0) counts over i for each j
RankScores(T, diag, width) ==
    [j \in 1..T.shape[2] |->
        Div(Num(Cardinality({i \in 1..T.shape[1] :
                                NumGt(At(T, i - 1, j - 1), diag[j])})),
            Num(width - 1))]

\* a variant without the transpose
RankOfUntransposed(distances) ==
    Mean(RankScores(distances, Diag(distances), distances.shape[2]))

\* lines 107-110 on the distance matrix
RankOf(distances) ==
    Mean(RankScores(Transpose(distances), Diag(distances), distances.shape[2]))

\* lines 105-110
RankScoreOf(f) ==
    Return([f EXCEPT !.steps = @ + 1],
           Scalar(RankOf(PairwiseDistances(f.X, f.Y,
                                           metrics[f.self].distance, FALSE))))

RankScore ==
    /\ Running({"RankAccuracy"}, "_apply_metric")
    /\ stack' = SetTop(RankScoreOf(Top))
    /\ UNCHANGED <<metrics, usedBy>>

(***************************************************************************)
(* RepresentationalSimilarity._score.                                      *)
(***************************************************************************)
\* a variant that asks for one column in both inputs
NanGuardBoth(X, Y) == X.shape[2] = 1 /\ Y.shape[2] = 1

\* line 122
NanGuard(X, Y) == X.shape[2] = 1 \/ Y.shape[2] = 1

\* rdm[np.isnan(rdm)] = 0
NanToZero(A) ==
    [A EXCEPT !.data = [k \in 1..Len(A.data) |->
                           IF IsNaN(A.data[k]) THEN Zero ELSE A.data[k]]]

\* np.triu_indices(N, k=1): the pairs (i, j), i < j, row by row
RECURSIVE TriuFrom(_, _, _)
TriuFrom(i, j, N) ==
    IF i >= N - 1 THEN <<>>
    ELSE IF j >= N THEN TriuFrom(i + 1, i + 2, N)
    ELSE <<<<i, j>>>> \o TriuFrom(i, j + 1, N)

TriuIndices(N) == TriuFrom(0, 1, N)

\* rdm[indices]: a 1-D array
Take(A, indices) ==
    Vec([k \in 1..Len(indices) |-> At(A, indices[k][1], indices[k][2])])

\* lines 120-124: the frame holding both RDMs, waiting for the comparison
RSAPrepare(f) ==
    LET X_rdm == PairwiseDistances(f.X, f.X, metrics[f.self].distance, TRUE)
        Y_rdm == PairwiseDistances(f.Y, f.Y, metrics[f.self].distance, TRUE)
        guard == NanGuard(f.X, f.Y)
    IN  [f EXCEPT !.X_rdm = IF guard THEN NanToZero(X_rdm) ELSE X_rdm,
                  !.Y_rdm = IF guard THEN NanToZero(Y_rdm) ELSE Y_rdm,
                  !.pc = "await", !.steps = @ + 1]

\* lines 125-126: the call self._comparison(X_rdm[indices], Y_rdm[indices])
RSACompare(g) ==
    LET indices == TriuIndices(g.X_rdm.shape[1])
    IN  Enter(metrics[g.self].comparison, Take(g.X_rdm, indices),
              Take(g.Y_rdm, indices))

\* the stack once the comparison has been entered
RSAPush(g) == Append(SetTop(g), RSACompare(g))

RSABegin ==
    /\ Running({"RepresentationalSimilarity"}, "_apply_metric")
    /\ stack' = RSAPush(RSAPrepare(Top))
    /\ UNCHANGED <<metrics, usedBy>>

\* lines 126-127: the comparison's result, or its exception, is the call's
Resume(caller, inner) ==
    LET c == [caller EXCEPT !.steps = @ + inner.steps]
    IN  IF inner.pc = "raised" THEN Raise(c, inner.err.type, inner.err.msg)
        ELSE Return(c, inner.result)

InnerReturn ==
    /\ Len(stack) > 1
    /\ Top.pc \in {"done", "raised"}
    /\ stack' = [SubSeq(stack, 1, Len(stack) - 1) EXCEPT
                    ![Len(stack) - 1] = Resume(stack[Len(stack) - 1], Top)]
    /\ UNCHANGED <<metrics, usedBy>>

(***************************************************************************)
(* LinearCKA.  Inputs are integer-valued; _center and _HSIC are computed   *)
(* on integers scaled by N^2 and N^4, which cancel in the score.           *)
(***************************************************************************)
\* np.dot(A, A.T)
Gram(A) ==
    [i \in 1..A.shape[1], j \in 1..A.shape[1] |->
        LET RECURSIVE Dot(_)
            Dot(c) == IF c = 0 THEN 0
                      ELSE At(A, i - 1, c - 1).n * At(A, j - 1, c - 1).n + Dot(c - 1)
        IN  Dot(A.shape[2])]

\* np.dot(A, B) of two N x N matrices
RECURSIVE DotRow(_, _, _, _, _)
DotRow(A, B, i, j, k) ==
    IF k = 0 THEN 0 ELSE A[i, k] * B[k, j] + DotRow(A, B, i, j, k - 1)

MatMul(A, B, N) == [i \in 1..N, j \in 1..N |-> DotRow(A, B, i, j, N)]

\* N * H with H = I - U / N
NH(N) == [i \in 1..N, j \in 1..N |-> (IF i = j THEN N ELSE 0) - 1]

\* N^2 * _center(K): (N*H).K.(N*H)
CenterN(K, N) == MatMul(MatMul(NH(N), K, N), NH(N), N)

\* np.sum(A * B) of two N x N matrices
RECURSIVE SumProduct(_, _, _, _)
SumProduct(A, B, N, k) ==
    IF k = 0 THEN 0
    ELSE A[((k - 1) \div N) + 1, ((k - 1) % N) + 1]
           * B[((k - 1) \div N) + 1, ((k - 1) % N) + 1]
         + SumProduct(A, B, N, k - 1)

\* N^4 * _HSIC(A, B)
HSICN(A, B) ==
    SumProduct(CenterN(Gram(A), A.shape[1]), CenterN(Gram(B), A.shape[1]),
               A.shape[1], A.shape[1] * A.shape[1])

\* line 153: HSIC_XY / (np.sqrt(HSIC_XX) * np.sqrt(HSIC_YY)) on the three
\* scaled values
CKAQuotient(HSIC_XY, HSIC_XX, HSIC_YY) ==
        IF HSIC_XX < 0 \/ HSIC_YY < 0 THEN NaN
        ELSE IF HSIC_XX = 0 \/ HSIC_YY = 0
        THEN (IF HSIC_XY = 0 THEN NaN ELSE Inf(Sign(HSIC_XY)))
        ELSE LET q == RatMul(Rat(HSIC_XY, HSIC_XX), Rat(HSIC_XY, HSIC_YY))
             IN  SqrtRat(Sign(HSIC_XY), q.n, q.d)

\* lines 150-153
CKAOf(X, Y) == CKAQuotient(HSICN(X, Y), HSICN(X, X), HSICN(Y, Y))

\* lines 149-154
CKAScoreOf(f) == Return([f EXCEPT !.steps = @ + 1], Scalar(CKAOf(f.X, f.Y)))

CKAScore ==
    /\ Running({"LinearCKA"}, "_apply_metric")
    /\ stack' = SetTop(CKAScoreOf(Top))
    /\ UNCHANGED <<metrics, usedBy>>

(***************************************************************************)
(* Calls.                                                                  *)
(***************************************************************************)
\* a caller invokes self(X, Y): lines 13-25 up to the dispatch
Call(self, X, Y) ==
    /\ stack = <<>>
    /\ stack' = <<Enter(self, X, Y)>>
    /\ UNCHANGED <<metrics, usedBy>>

\* the call returns to (or raises into) its caller
Finish ==
    /\ Len(stack) = 1
    /\ Top.pc \in {"done", "raised"}
    /\ stack' = <<>>
    /\ UNCHANGED <<metrics, usedBy>>

\* Finish, keeping in usedBy which instances have completed a call that went
\* through the shared default comparison
FinishLogged ==
    /\ Len(stack) = 1
    /\ Top.pc \in {"done", "raised"}
    /\ stack' = <<>>
    /\ usedBy' = IF /\ metrics[Top.self].comparison = "default_comparison"
                    /\ Top.steps > 0
                 THEN usedBy \cup {Top.self} ELSE usedBy
    /\ UNCHANGED metrics

(***************************************************************************)
(* Input families.                                                         *)
(***************************************************************************)
RECURSIVE Size(_)
Size(shape) == IF shape = <<>> THEN 1 ELSE shape[1] * Size(Tail(shape))

\* 0-D, 1-D, 2-D and 3-D shapes
Shapes ==
    {<<>>} \cup {<<n>> : n \in 1..MaxN}
           \cup {<<n, c>> : n \in 1..MaxN, c \in 1..MaxF}
           \cup {<<n, c, 1>> : n \in 1..MaxN, c \in 1..MaxF}

\* one X and one Y of every shape, with entries that tell the columns apart
ShapeXs ==
    {Array(sh, [k \in 1..Size(sh) |-> Num(IF k % 3 = 0 THEN 1 ELSE 0)]) :
        sh \in Shapes}

ShapeYs ==
    {Array(sh, [k \in 1..Size(sh) |-> Num(IF k % 4 < 2 THEN 1 ELSE 0)]) :
        sh \in Shapes}

\* the entries of an n x c array over DataValues, row-major
DataEntries(n, c) == [1..(n * c) -> {Num(v) : v \in DataValues}]

\* a caller invokes self on some pair of 2-D arrays over DataValues with
\* equally many rows (up to MaxN) and column counts from DataCols
CallOnData(self) ==
    /\ stack = <<>>
    /\ \E n \in 1..MaxN, cx \in DataCols, cy \in DataCols :
          \E dx \in DataEntries(n, cx), dy \in DataEntries(n, cy) :
              Call(self, Array(<<n, cx>>, dx), Array(<<n, cy>>, dy))

(***************************************************************************)
(* Specifications.                                                         *)
(***************************************************************************)
Init ==
    /\ metrics = Constructed
    /\ stack = <<>>
    /\ usedBy = {}

CallAny ==
    /\ stack = <<>>
    /\ \E self \in Callable, X \in ShapeXs, Y \in ShapeYs : Call(self, X, Y)

Next ==
    \/ CallAny
    \/ VectorBegin
    \/ VectorScoreColumn
    \/ VectorReduce
    \/ RankScore
    \/ RSABegin
    \/ InnerReturn
    \/ CKAScore
    \/ FinishLogged

Spec == Init /\ [][Next]_vars

CallRank == CallOnData("rank")

NextRank == CallRank \/ RankScore \/ Finish

SpecRank == Init /\ [][NextRank]_vars

CallRSA == CallOnData("rsa1")

NextRSA ==
    \/ CallRSA
    \/ RSABegin
    \/ VectorBegin
    \/ VectorScoreColumn
    \/ VectorReduce
    \/ InnerReturn
    \/ Finish

SpecRSA == Init /\ [][NextRSA]_vars

\* LinearCKA on every data array against itself and against every data array
\* with the same rows and another column count
CallCKA ==
    /\ stack = <<>>
    /\ \E n \in 1..MaxN, cx \in DataCols, cy \in DataCols :
          \E dx \in DataEntries(n, cx),
             dy \in IF cy = cx THEN {0} ELSE DataEntries(n, cy) :
              Call("cka", Array(<<n, cx>>, dx),
                   Array(<<n, cy>>, IF cy = cx THEN dx ELSE dy))

NextCKA == CallCKA \/ CKAScore \/ Finish

SpecCKA == Init /\ [][NextCKA]_vars
(***************************************************************************)
(* Properties.                                                             *)
(***************************************************************************)
Frames == {stack[k] : k \in 1..Len(stack)}

Class(f) == metrics[f.self].cls

\* the call has raised one of __call__'s own shape errors
ShapeError(f) ==
    f.pc = "raised" /\ f.err.type = "ValueError" /\ f.err.msg \in ShapeMessages

Both2D(f) == f.X.ndim = 2 /\ f.Y.ndim = 2

SameSamples(f) == Both2D(f) /\ f.X.shape[1] = f.Y.shape[1]

FeatureMismatch(f) == SameSamples(f) /\ f.X.shape[2] # f.Y.shape[2]

ResultIsNaN(res) ==
    IF res.kind = "vector" THEN AnyNaN(res.vec) ELSE IsNaN(res.num)

\* C1: with equal sample counts and different feature counts, the six
\* feature-matched metrics raise the shape error without scoring, while
\* RepresentationalSimilarity and LinearCKA reach their scoring routine and
\* no frame of the call, the inner comparison included, raises a shape error.
C1_FeatureMismatch ==
    (stack # <<>> /\ FeatureMismatch(stack[1])) =>
        IF Class(stack[1]) \in GeometryExempt
        THEN /\ \A f \in Frames : ~ShapeError(f)
             /\ stack[1].pc = "_apply_metric" \/ stack[1].steps > 0
             /\ \A k \in 2..Len(stack) :
                    /\ stack[k].X.shape = stack[k].Y.shape
                    /\ stack[k].X.shape[1] =
                         (stack[1].X.shape[1] * (stack[1].X.shape[1] - 1)) \div 2
        ELSE /\ ShapeError(stack[1])
             /\ stack[1].err.msg = "X and Y must have the same number of dimensions."
             /\ stack[1].steps = 0

\* RepresentationalSimilarity has returned from a call on inputs with
\* different feature counts
C1_Witness ==
    /\ Len(stack) = 1
    /\ stack[1].self = "rsa1"
    /\ FeatureMismatch(stack[1])
    /\ stack[1].pc = "done"

\* C2: for every metric, inputs that are not both 2-D after normalisation or
\* differ in sample count raise the shape error, and no scoring step has run
\* in a call that raised a shape error.
C2_ShapeErrorBeforeScoring ==
    /\ stack # <<>> => (~SameSamples(stack[1]) => ShapeError(stack[1]))
    /\ \A f \in Frames : ShapeError(f) => f.steps = 0 /\ f.result = NoResult

\* a geometry-exempt metric has raised on differing sample counts
C2_Witness ==
    /\ stack # <<>>
    /\ stack[1].self = "cka"
    /\ Both2D(stack[1])
    /\ stack[1].X.shape[1] # stack[1].Y.shape[1]
    /\ ShapeError(stack[1])
    /\ stack[1].steps = 0

\* C3 (as claimed): a per-dimension metric whose reduction is not callable,
\* and is not the "no reduction" setting, never returns a score.
C3_NonCallableNeverReturns ==
    \A f \in Frames :
        (/\ Class(f) \in VectorClasses
         /\ ~metrics[f.self].reduction.callable
         /\ metrics[f.self].reduction # NoReduction) => f.pc # "done"

\* C4: the k-th score is the column score of column k of X and column k of
\* Y; a call that returns has scored exactly F columns; without a reduction
\* it returns the F scores in column order, and with a callable reduction the
\* reduction is invoked once, on the F scores, and its value is the result.
C4_PerColumnScores ==
    \A f \in Frames :
        (Class(f) \in VectorClasses /\ f.pc \in {"loop", "done"}) =>
            /\ Len(f.scores) = f.X.shape[2]
            /\ f.nscore = f.i
            /\ \A k \in 1..f.i :
                   f.scores[k] = Score(Class(f), Col(f.X, k - 1), Col(f.Y, k - 1))
            /\ f.pc = "done" =>
                   /\ f.i = f.X.shape[2]
                   /\ metrics[f.self].reduction = NoReduction =>
                          f.result = Vector(f.scores) /\ f.redArgs = <<>>
                   /\ metrics[f.self].reduction.callable =>
                          /\ f.redArgs = <<f.scores>>
                          /\ f.result.kind = "reduced"
                          /\ f.result.by = metrics[f.self].reduction.name
                          /\ f.result.vec = f.scores

\* a two-column call has returned the value of its callable reduction, and
\* the two columns score differently
C4_Witness ==
    /\ Len(stack) = 1
    /\ stack[1].self = "rmse"
    /\ stack[1].pc = "done"
    /\ stack[1].X.shape[2] = 2
    /\ Len(stack[1].redArgs) = 1
    /\ stack[1].scores[1] # stack[1].scores[2]
    /\ Score("RMSE", Col(stack[1].X, 1), Col(stack[1].Y, 0)) # stack[1].scores[2]

\* the distance matrix of a RankAccuracy call
DistancesOf(f) == PairwiseDistances(f.X, f.Y, metrics[f.self].distance, FALSE)

\* how many i # j have D[i][j] > D[j][j], summed over the columns j
ColumnwiseCount(D) ==
    Cardinality({p \in (1..D.shape[1]) \X (1..D.shape[1]) :
        p[1] # p[2] /\ NumGt(At(D, p[1] - 1, p[2] - 1), At(D, p[2] - 1, p[2] - 1))})

\* how many i # j have D[j][i] > D[j][j], summed over the rows j
RowwiseCount(D) ==
    Cardinality({p \in (1..D.shape[1]) \X (1..D.shape[1]) :
        p[1] # p[2] /\ NumGt(At(D, p[2] - 1, p[1] - 1), At(D, p[2] - 1, p[2] - 1))})

MeanFraction(count, N) == Div(Num(count), Num(N * (N - 1)))

RankDone(f) == Class(f) = "RankAccuracy" /\ f.pc = "done"

\* C5 (as claimed): the result is the mean over the columns j of the fraction
\* of the other rows i of column j with D[i][j] > D[j][j].
C5_ColumnwiseFractions ==
    \A f \in Frames :
        RankDone(f) =>
            f.result = Scalar(MeanFraction(ColumnwiseCount(DistancesOf(f)),
                                           f.X.shape[1]))

\* C5 (amended): the result is the mean over the rows j of the fraction of
\* the other entries i of row j with D[j][i] > D[j][j] (0/0, NaN, for N = 1).
C5_RowwiseFractions ==
    \A f \in Frames :
        RankDone(f) =>
            f.result = Scalar(MeanFraction(RowwiseCount(DistancesOf(f)),
                                           f.X.shape[1]))

\* a RankAccuracy call has returned on a distance matrix whose row-wise and
\* column-wise counts differ
C5_Witness ==
    /\ stack # <<>>
    /\ RankDone(stack[1])
    /\ RowwiseCount(DistancesOf(stack[1])) # ColumnwiseCount(DistancesOf(stack[1]))
    /\ ~IsNaN(stack[1].result.num)

\* C6 (as claimed): RankAccuracy returns a defined number in [0, 1], and 1
\* when every off-diagonal distance exceeds the matched diagonal distances.
C6_DefinedInUnitRange ==
    \A f \in Frames :
        RankDone(f) =>
            /\ f.result.num.k = "rat"
            /\ 0 <= f.result.num.n /\ f.result.num.n <= f.result.num.d
            /\ (\A i, j \in 1..f.X.shape[1] :
                    i # j => /\ NumGt(At(DistancesOf(f), i - 1, j - 1),
                                      At(DistancesOf(f), j - 1, j - 1))
                             /\ NumGt(At(DistancesOf(f), i - 1, j - 1),
                                      At(DistancesOf(f), i - 1, i - 1)))
                 => f.result.num = One

RSADefault(f) ==
    /\ Class(f) = "RepresentationalSimilarity"
    /\ metrics[f.self].distance = "correlation"
    /\ metrics[f.self].comparison = "default_comparison"

\* C7 (as claimed): for the default RepresentationalSimilarity on one-column
\* X and Y, no RDM entry handed to the comparison is NaN and the scalar the
\* call returns is not NaN.
C7_OneColumnNeverNaN ==
    \A f \in Frames :
        (RSADefault(f) /\ f.X.shape[2] = 1 /\ f.Y.shape[2] = 1) =>
            /\ f.pc \in {"await", "done"} =>
                   ~AnyNaN(f.X_rdm.data) /\ ~AnyNaN(f.Y_rdm.data)
            /\ f.pc = "done" => ~ResultIsNaN(f.result)

\* C8: every instance holds its construction-time configuration in every
\* state, whatever calls have returned or raised before.
C8_ConfigurationUnchanged == metrics = Constructed

\* both RepresentationalSimilarity instances have completed calls through
\* the shared default comparison, and a later call has raised the
\* non-callable-reduction error
C8_Witness ==
    /\ usedBy = {"rsa1", "rsa2"}
    /\ Len(stack) = 1
    /\ stack[1].pc = "raised"
    /\ stack[1].err.type = "TypeError"

\* C9 (as claimed): LinearCKA of X with itself returns 1.0.
C9_SelfAlignmentIsOne ==
    \A f \in Frames :
        (Class(f) = "LinearCKA" /\ f.pc = "done" /\ f.X = f.Y) =>
            f.result = Scalar(One)

\* the RDM of one input before any substitution
RawRDM(f, A) == PairwiseDistances(A, A, metrics[f.self].distance, TRUE)

\* position, from 1, of the pair (i, j), 0 <= i < j < N, in the row-by-row
\* listing of the strict upper triangle
TriuPosition(i, j, N) == i * N - ((i * (i + 1)) \div 2) + (j - i)

\* rdm agrees with raw except that NaN is 0 where substituted
Substituted(rdm, raw, substituted) ==
    /\ rdm.shape = raw.shape
    /\ \A k \in 1..Len(raw.data) :
           rdm.data[k] = IF substituted /\ IsNaN(raw.data[k]) THEN Zero
                         ELSE raw.data[k]

\* vec lists the strict upper triangle of rdm row by row
UpperTriangleOf(vec, rdm) ==
    LET N == rdm.shape[1]
    IN  /\ vec.ndim = 2 /\ vec.shape = <<(N * (N - 1)) \div 2, 1>>
        /\ \A i, j \in 0..(N - 1) :
               i < j => vec.data[TriuPosition(i, j, N)] = At(rdm, i, j)

\* C10: at the moment RepresentationalSimilarity hands its two vectors to the
\* comparison, NaN entries have been replaced by 0 in both RDMs exactly when
\* X or Y has one column; otherwise both RDMs are as computed; no other
\* entry has changed; and the comparison receives the strict upper triangle
\* of each RDM in the same row-by-row order.
C10_NaNSubstitution ==
    \A k \in 1..Len(stack) :
        (Class(stack[k]) = "RepresentationalSimilarity" /\ stack[k].pc = "await") =>
            /\ Len(stack) > k
            /\ stack[k + 1].steps = 0 =>
                   LET f == stack[k]
                       one == f.X.shape[2] = 1 \/ f.Y.shape[2] = 1
                   IN  /\ Substituted(f.X_rdm, RawRDM(f, f.X), one)
                       /\ Substituted(f.Y_rdm, RawRDM(f, f.Y), one)
                       /\ UpperTriangleOf(stack[k + 1].X, f.X_rdm)
                       /\ UpperTriangleOf(stack[k + 1].Y, f.Y_rdm)

\* X has one column, Y has two and a NaN in its raw RDM that is 0 in Y_rdm,
\* and the comparison is running on three-entry vectors
C10_Witness ==
    /\ Len(stack) = 2
    /\ stack[1].pc = "await"
    /\ stack[1].X.shape = <<3, 1>>
    /\ stack[1].Y.shape = <<3, 2>>
    /\ \E k \in 1..9 :
           /\ IsNaN(RawRDM(stack[1], stack[1].Y).data[k])
           /\ stack[1].Y_rdm.data[k] = Zero
    /\ \E k \in 1..9 : stack[1].Y_rdm.data[k] # Zero
    /\ stack[2].X.shape = <<3, 1>>
====
